---- MODULE Spec2Model ----
(***************************************************************************)
(* A model of python/ray/autoscaler/commands.py: the cluster lifecycle     *)
(* commands create_or_update_cluster (with get_or_create_head_node) and    *)
(* teardown_cluster, run against a node provider whose view of "non        *)
(* terminated" nodes may lag behind create and terminate requests.         *)
(***************************************************************************)
EXTENDS Integers, Sequences, FiniteSets, TLC

\* ------------------------------------------------------------------ bounds
MaxWorkers == 3
MaxMinWorkers == 1
MaxOps == 2
MaxMounts == 2

\* ------------------------------------------------------- program constants
\* commands.py:309  if time.time() - start > 50
ReadinessBound == 50
\* commands.py:315  time.sleep(1)
PollInterval == 1
\* commands.py:304  provider.create_node(config["head_node"], head_node_tags, 1)
HeadCount == 1
\* commands.py:390  sys.exit(1)
FailureExitCode == 1

NODE_TYPE_HEAD == "head"
NODE_TYPE_WORKER == "worker"

MaxNodes == MaxWorkers + 1 + MaxOps
NodeIds == 1..MaxNodes
\* Two launch specs: a head was launched from the one the config asks for or
\* from the other one.
LaunchSpecs == {1, 2}
DesiredSpec == CHOOSE s \in LaunchSpecs : \A t \in LaunchSpecs : s <= t
None == 0

\* config["file_mounts"] with k entries: remote path -> local path
DeclaredMounts(k) == [p \in {"/remote" \o ToString(i) : i \in 1..k} |-> "/local"]

\* dict.update({key: value})
Update(d, key, value) ==
  [k \in DOMAIN d \cup {key} |-> IF k = key THEN value ELSE d[k]]

\* config["provider"]["type"]: kubernetes is the one type that gets no key.
ProviderTypes == {"aws", "kubernetes"}

\* config["auth"]: the local private key, with or without ssh_proxy_command
local_key_path == "~/.ssh/key.pem"
Auth(proxy) ==
  IF proxy
  THEN [k \in {"ssh_private_key", "ssh_proxy_command"} |->
          IF k = "ssh_private_key" THEN local_key_path ELSE "ssh -W proxy"]
  ELSE [k \in {"ssh_private_key"} |-> local_key_path]

\* The provider types the registry knows; any other type is unsupported.
NODE_PROVIDERS == ProviderTypes

\* Config files: the head's launch spec, min_workers, the declared file
\* mounts, the provider type, the auth descriptor, and whether the content
\* passes validate_config.
ConfigsOf(minWorkers, mounts, types, proxies, valid) ==
  [head_node : {DesiredSpec}, min_workers : minWorkers, file_mounts : mounts,
   provider_type : types, auth : {Auth(p) : p \in proxies}, schema_valid : valid]

\* The valid config files considered where neither the provider type nor
\* the proxy option is looked at.
Configs(minWorkers, mounts) ==
  ConfigsOf(minWorkers, mounts, {"aws"}, {FALSE}, {TRUE})

\* The cache file of the config's key: missing, holding the resolved config,
\* or holding text that is not JSON.
CacheStates == {"absent", "resolved", "corrupt"}

\* The one auth descriptor of the configs considered.
AuthConfig == 3

\* ray.autoscaler.util.hash_launch_conf: a digest of (launch spec, auth);
\* equal inputs give equal digests, different inputs different ones.
hash_launch_conf(node_conf, auth) == 100 + 10 * node_conf + auth

\* "ray-{}-head".format(config["cluster_name"])
HeadNodeName == "ray-cluster-head"

\* What the provider knows of an id it never handed out.
NoNode == [tags |-> [type |-> "none", launch |-> 0, name |-> ""], st |-> "absent"]

\* A node the provider has terminated: it is never reported again.
GoneNode == [tags |-> [type |-> "none", launch |-> 0, name |-> ""], st |-> "terminated"]

WorkerNode ==
  [tags |-> [type |-> NODE_TYPE_WORKER, launch |-> 0, name |-> "ray-cluster-worker"],
   st |-> "running"]

HeadNode(launch, st) ==
  [tags |-> [type |-> NODE_TYPE_HEAD, launch |-> launch, name |-> HeadNodeName],
   st |-> st]

VARIABLES
  nodes,           \* provider: node id -> [tags, st]
  cache,           \* the config cache file of this config's key
  config_file,     \* the cluster config file, as yaml.safe_load reads it
  config,          \* the config dict of the running command
  op,              \* the running (or last) top-level command
  pc,              \* its position
  args,            \* its arguments
  head_node,       \* get_or_create_head_node: head_node
  head_node_tags,  \* get_or_create_head_node: head_node_tags (a dict)
  found,           \* the result of the last non_terminated_nodes query
  elapsed,         \* time.time() - start, in seconds
  A,               \* teardown_cluster: A
  updater,         \* the NodeUpdaterThread: [state, node, exitcode]
  h,               \* history of the running (or last) command
  last,            \* the command that returned last: [op, outcome]
  changed,         \* the provider state changed since that command returned
  opsDone          \* commands that have returned

vars == <<nodes, cache, config_file, config, op, pc, args, head_node, head_node_tags, found,
          elapsed, A, updater, h, last, changed, opsDone>>

\* ---------------------------------------------------------------- provider

\* A node matches a tag filter when it carries every tag of the filter.
Matches(n, tag_filters) ==
  \A k \in DOMAIN tag_filters : nodes[n].tags[k] = tag_filters[k]

Visible(n) == nodes[n].st \in {"running", "stopping"}

\* provider.non_terminated_nodes(tag_filters)
non_terminated_nodes(tag_filters) ==
  {n \in NodeIds : Visible(n) /\ Matches(n, tag_filters)}

\* provider.node_tags(node)
node_tags(n) == nodes[n].tags

FreeIds == {n \in NodeIds : nodes[n].st = "absent"}

\* provider.create_node(node_config, tags, count) for count = 1: the new node
\* takes the next id and is not yet reported by non_terminated_nodes.
create_node(tags, id) ==
  [nodes EXCEPT ![id] = [tags |-> tags, st |-> "pending"]]

\* provider.terminate_node(s): the request is recorded; the node stays
\* visible until the provider honors it.
terminate_nodes(ids) ==
  [n \in NodeIds |->
     IF n \in ids /\ nodes[n].st \in {"pending", "running"}
     THEN [nodes[n] EXCEPT !.st = "stopping"]
     ELSE nodes[n]]

VisibleHeads == non_terminated_nodes([type |-> NODE_TYPE_HEAD])
VisibleWorkers == non_terminated_nodes([type |-> NODE_TYPE_WORKER])

\* ----------------------------------------------------------------- history
NoHistory ==
  [creates |-> <<>>,        \* create_node calls: [tags, count, id]
   terminates |-> <<>>,     \* terminate_node calls of get_or_create_head_node
   requested |-> {},        \* nodes teardown_cluster asked to terminate
   requestedWorkers |-> {}, \* the workers among them
   trace |-> <<>>,          \* the steps of get_or_create_head_node, in order
   bootstraps |-> 0,        \* provider bootstrap_config calls
   cacheWrites |-> 0,       \* config cache writes
   remoteCmds |-> 0,        \* commands run on a node
   updaterStarts |-> 0,
   head0 |-> None,          \* the head the first query of the command found
   lastPoll |-> {},         \* what the last readiness poll returned
   polls |-> 0,             \* polls of the readiness wait under way that failed
   opened |-> 0,            \* get_node_provider
   cleanups |-> 0,          \* provider.cleanup()
   ip |-> None,             \* the node whose ip was queried
   logged |-> None,         \* the node whose ip was logged
   exitcode |-> None,       \* the exit code of sys.exit
   lastA |-> {},            \* teardown_cluster: A before the last requery
   queries |-> 0,           \* remaining_nodes() calls (counted up to 2)
   w0 |-> 0,                \* workers reported when teardown_cluster started
   lagging0 |-> FALSE,      \* a terminate request was pending at that time
   quiet |-> FALSE,         \* the provider state is as the last command left it
   cache0 |-> "none",       \* the cache file as _bootstrap_config found it
   resolve |-> "none",      \* _bootstrap_config: "cached", "full" or "failed"
   validations |-> 0,       \* validate_config calls of _bootstrap_config
   ran |-> <<>>,            \* the commands the updater thread ran, in order
   shutdown |-> "none",     \* teardown_cluster: how the clean shutdown ended
   cmd |-> <<>>,            \* exec_cluster: the command line handed to the runner
   wrap |-> "none",         \* _exec: the multiplexer the command is wrapped in
   shutdownAfter |-> FALSE, \* cmd_runner.shutdown_after_next_cmd() was called
   lookups |-> <<>>,        \* what the queries of _get_head_node returned, in order
   remoteWritten |-> FALSE, \* the remote config was written to its temp file
   remote |-> <<>>,         \* the remote config as written
   runs |-> <<>>,           \* cmd_runner.run calls: [node, cmd, run_env]
   todo |-> <<>>,           \* rsync: the nodes still to be synced
   updaters |-> <<>>,       \* the nodes NodeUpdaterThread was built for
   transfers |-> <<>>,      \* rsync calls: [node, primitive, source]
   outcome |-> "running"]

NoUpdater ==
  [state |-> "none", node |-> None, exitcode |-> None,
   initialization_commands |-> <<>>,
   setup_commands |-> <<>>, ray_start_commands |-> <<>>]

NoArgs ==
  [no_restart |-> FALSE, restart_only |-> FALSE, yes |-> FALSE,
   no_config_cache |-> FALSE, workers_only |-> FALSE, keep_min_workers |-> FALSE,
   cmd |-> <<>>, stop |-> FALSE, start |-> FALSE, run_env |-> "auto",
   screen |-> FALSE, tmux |-> FALSE,
   down |-> FALSE, all_nodes |-> FALSE, source |-> FALSE, target |-> FALSE,
   hard |-> FALSE]

InitNodes(W, headLaunch) ==
  [n \in NodeIds |->
     IF n <= W THEN WorkerNode
     ELSE IF n = W + 1 /\ headLaunch # None THEN HeadNode(headLaunch, "running")
     ELSE NoNode]

\* A session starts on a cluster of some workers and at most one head, with
\* a config file and the cache file of its key in some state.
InitOf(configs) ==
  /\ \E W \in 0..MaxWorkers :
       \E hl \in {None} \cup {hash_launch_conf(s, AuthConfig) : s \in LaunchSpecs} :
         nodes = InitNodes(W, hl)
  /\ cache \in CacheStates
  /\ config_file \in configs
  /\ config = config_file
  /\ op = "none"
  /\ pc = "done"
  /\ args = NoArgs
  /\ head_node = None
  /\ head_node_tags = [type |-> NODE_TYPE_HEAD]
  /\ found = {}
  /\ elapsed = 0
  /\ A = {}
  /\ updater = NoUpdater
  /\ h = NoHistory
  /\ last = [op |-> "none", outcome |-> "none"]
  /\ changed = FALSE
  /\ opsDone = 0

InitWith(minWorkers, mounts) == InitOf(Configs(minWorkers, mounts))

Init == InitWith(0..MaxMinWorkers, {DeclaredMounts(1)})

\* ------------------------------------------------------------ environment

\* The provider starts reporting a created node.
ProviderShows(n) ==
  /\ nodes[n].st = "pending"
  /\ nodes' = [nodes EXCEPT ![n].st = "running"]
  /\ changed' = IF pc = "done" THEN TRUE ELSE changed
  /\ UNCHANGED <<config_file, cache, config, op, pc, args, head_node, head_node_tags, found,
                 elapsed, A, updater, h, last, opsDone>>

\* The provider honors a terminate request: the node is no longer reported.
ProviderHonors(n) ==
  /\ nodes[n].st = "stopping"
  /\ nodes' = [nodes EXCEPT ![n] = GoneNode]
  /\ changed' = IF pc = "done" THEN TRUE ELSE changed
  /\ UNCHANGED <<config_file, cache, config, op, pc, args, head_node, head_node_tags, found,
                 elapsed, A, updater, h, last, opsDone>>

\* ------------------------------------------------------- _bootstrap_config

\* line 110: os.path.exists(cache_key) and not no_config_cache
CacheHit(no_config_cache) == cache # "absent" /\ ~no_config_cache

\* lines 110-125: how _bootstrap_config ends.  On a hit the file is parsed
\* (json.loads raises ValueError on a file that is not JSON) and returned as
\* it is; otherwise the config is validated (line 113 raises on an invalid
\* one), its provider type looked up (lines 115-118 raise on an unknown one)
\* and the config bootstrapped by the provider.
bootstrap_result(no_config_cache) ==
  IF CacheHit(no_config_cache)
  THEN IF cache = "corrupt" THEN "failed" ELSE "cached"
  ELSE IF ~config.schema_valid THEN "failed"
  ELSE IF config.provider_type \notin NODE_PROVIDERS THEN "failed"
  ELSE "full"

\* The cache file is written as soon as the lookup missed, before the
\* config is validated.
bootstrap_cache_Early(no_config_cache) ==
  IF ~CacheHit(no_config_cache) /\ ~no_config_cache THEN "resolved" ELSE cache

\* The resolved config is never written to the cache file.
bootstrap_cache_NoWrite(no_config_cache) == cache

\* lines 122-124: the cache file after _bootstrap_config
bootstrap_cache(no_config_cache) ==
  IF bootstrap_result(no_config_cache) = "full" /\ ~no_config_cache
  THEN "resolved" ELSE cache

\* The provider is asked to bootstrap the config on a cache hit as well.
bootstrap_history_Always(hist, no_config_cache) ==
  [hist EXCEPT !.cache0 = cache,
               !.resolve = bootstrap_result(no_config_cache),
               !.validations = @ + 1,
               !.bootstraps = @ + 1,
               !.cacheWrites = IF no_config_cache THEN @ ELSE @ + 1]

\* lines 113-124: the calls _bootstrap_config makes (validate_config, the
\* provider's bootstrap_config, the cache write)
bootstrap_history(hist, no_config_cache) ==
  IF bootstrap_result(no_config_cache) = "full"
  THEN [hist EXCEPT !.cache0 = cache, !.resolve = "full",
                    !.validations = @ + 1,
                    !.bootstraps = @ + 1,
                    !.cacheWrites = IF no_config_cache THEN @ ELSE @ + 1]
  ELSE [hist EXCEPT !.cache0 = cache,
                    !.resolve = bootstrap_result(no_config_cache),
                    !.validations = IF CacheHit(no_config_cache) THEN @ ELSE @ + 1]

\* -------------------------------------------------------- starting a command

BOOL == {TRUE, FALSE}

Begin(name, a, first) ==
  /\ pc = "done"
  /\ op' = name
  /\ args' = a
  /\ pc' = first
  /\ h' = [NoHistory EXCEPT !.quiet = ~changed]
  /\ UNCHANGED <<config_file, nodes, cache, config, head_node, head_node_tags, found, elapsed,
                 A, updater, last, changed, opsDone>>

\* The command returns to the shell: its locals are gone, its outcome is kept.
Return ==
  /\ pc = "end"
  /\ pc' = "done"
  /\ last' = [op |-> op, outcome |-> h.outcome]
  /\ opsDone' = opsDone + 1
  /\ changed' = FALSE
  /\ h' = NoHistory
  /\ head_node' = None
  /\ head_node_tags' = [type |-> NODE_TYPE_HEAD]
  /\ found' = {}
  /\ elapsed' = 0
  /\ A' = {}
  /\ updater' = NoUpdater
  /\ config' = config_file
  /\ UNCHANGED <<config_file, nodes, cache, op, args>>

\* ------------------------------------------------ create_or_update_cluster

UpArgs ==
  {[NoArgs EXCEPT !.no_restart = nr, !.restart_only = ro, !.yes = y,
                  !.no_config_cache = ncc] : nr \in BOOL, ro \in BOOL, y \in BOOL, ncc \in BOOL}

\* The first command of the session.
create_or_update_cluster ==
  /\ opsDone = 0
  /\ \E a \in UpArgs : Begin("up", a, "up_bootstrap")

\* The same command line run again in the same session.
create_or_update_cluster_again ==
  /\ opsDone > 0
  /\ opsDone < MaxOps
  /\ op = "up"
  /\ Begin("up", args, "up_bootstrap")

\* line 121: provider_cls.bootstrap_config(config) raises; lines 122-124 are
\* not reached.
UpBootstrapRaises ==
  /\ pc = "up_bootstrap"
  /\ bootstrap_result(args.no_config_cache) = "full"
  /\ h' = [h EXCEPT !.cache0 = cache, !.resolve = "failed",
                    !.validations = @ + 1, !.bootstraps = @ + 1,
                    !.outcome = "error"]
  /\ pc' = "end"
  /\ UNCHANGED <<config_file, nodes, cache, config, op, args, head_node,
                 head_node_tags, found, elapsed, A, updater, last, changed, opsDone>>

\* line 98: config = _bootstrap_config(config, no_config_cache)
UpBootstrap ==
  /\ pc = "up_bootstrap"
  /\ cache' = bootstrap_cache(args.no_config_cache)
  /\ LET hb == bootstrap_history(h, args.no_config_cache) IN
       IF hb.resolve = "failed"
       THEN /\ h' = [hb EXCEPT !.outcome = "error"]
            /\ pc' = "end"
       ELSE /\ h' = hb
            /\ pc' = "goc_query"
  /\ UNCHANGED <<config_file, nodes, config, op, args, head_node, head_node_tags, found,
                 elapsed, A, updater, last, changed, opsDone>>

\* ------------------------------------------------- get_or_create_head_node

LogTo(tr, e) == IF tr # <<>> /\ tr[Len(tr)] = e THEN tr ELSE Append(tr, e)

\* lines 273-283: open the provider, query the heads, head_node = nodes[0]
\* (the provider fixes the order of the list: any reported head may be first).
GocQuery ==
  /\ pc = "goc_query"
  /\ LET heads == non_terminated_nodes(head_node_tags) IN
       /\ found' = heads
       /\ IF heads # {} THEN head_node' \in heads ELSE head_node' = None
  /\ h' = [h EXCEPT !.opened = @ + 1, !.head0 = head_node',
                    !.trace = LogTo(@, "query")]
  /\ pc' = "goc_confirm"
  /\ UNCHANGED <<config_file, nodes, cache, config, op, args, head_node_tags, elapsed, A,
                 updater, last, changed, opsDone>>

\* lines 285-288: which confirmation is asked, if any
NeedsConfirm == head_node = None \/ ~args.no_restart

\* confirm(msg, yes) returns: yes was given, nothing was asked, or the user agreed
GocConfirmed ==
  /\ pc = "goc_confirm"
  /\ h' = [h EXCEPT !.trace = LogTo(@, "confirm")]
  /\ pc' = "goc_launch_hash"
  /\ UNCHANGED <<config_file, nodes, cache, config, op, args, head_node, head_node_tags, found,
                 elapsed, A, updater, last, changed, opsDone>>

\* The out-of-date confirmation is asked after terminate_node.
GocDeclined_AfterTerminate ==
  /\ pc \in {"goc_confirm", "goc_create"}
  /\ ~args.yes
  /\ pc = "goc_confirm" => NeedsConfirm
  /\ pc = "goc_create" => h.terminates # <<>>
  /\ h' = [h EXCEPT !.outcome = "declined", !.trace = LogTo(@, "declined")]
  /\ pc' = "goc_finally"
  /\ UNCHANGED <<config_file, nodes, cache, config, op, args, head_node, head_node_tags, found,
                 elapsed, A, updater, last, changed, opsDone>>

\* confirm(msg, yes) raises click.Abort: the user refused
GocDeclined ==
  /\ pc \in {"goc_confirm", "goc_confirm_outdated"}
  /\ ~args.yes
  /\ pc = "goc_confirm" => NeedsConfirm
  /\ h' = [h EXCEPT !.outcome = "declined", !.trace = LogTo(@, "declined")]
  /\ pc' = "goc_finally"
  /\ UNCHANGED <<config_file, nodes, cache, config, op, args, head_node, head_node_tags, found,
                 elapsed, A, updater, last, changed, opsDone>>

\* line 290
launch_hash == hash_launch_conf(config.head_node, AuthConfig)

\* lines 291-292
OutOfDate == head_node = None \/ node_tags(head_node).launch # launch_hash

\* lines 290-293, and 306-307 when the head is kept
GocLaunchHash ==
  /\ pc = "goc_launch_hash"
  /\ h' = [h EXCEPT !.trace = LogTo(@, "node_tags")]
  /\ IF OutOfDate
     THEN /\ pc' = IF head_node # None THEN "goc_confirm_outdated" ELSE "goc_create"
          /\ UNCHANGED <<config_file, head_node, elapsed>>
     ELSE /\ pc' = "goc_poll"
          /\ head_node' = None
          /\ elapsed' = 0
  /\ UNCHANGED <<config_file, nodes, cache, config, op, args, head_node_tags, found, A,
                 updater, last, changed, opsDone>>

\* lines 294-295: confirm("Head node config out-of-date...") returns
GocConfirmedOutdated ==
  /\ pc = "goc_confirm_outdated"
  /\ pc' = "goc_terminate"
  /\ UNCHANGED <<config_file, nodes, cache, config, op, args, head_node, head_node_tags, found,
                 elapsed, A, updater, h, last, changed, opsDone>>

\* lines 296-299: provider.terminate_node(head_node)
GocTerminate ==
  /\ pc = "goc_terminate"
  /\ nodes' = terminate_nodes({head_node})
  /\ h' = [h EXCEPT !.terminates = Append(@, head_node),
                    !.trace = LogTo(@, "terminate")]
  /\ pc' = "goc_create"
  /\ UNCHANGED <<config_file, cache, config, op, args, head_node, head_node_tags, found,
                 elapsed, A, updater, last, changed, opsDone>>

\* The launch hash is left out of the tags.
NewHeadTags_NoLaunch ==
  [type |-> head_node_tags.type, launch |-> 0, name |-> HeadNodeName]

\* lines 301-303: the tags of the new head
NewHeadTags ==
  [type |-> head_node_tags.type, launch |-> launch_hash, name |-> HeadNodeName]

\* lines 300-307: create the head with the extended tags, start the clock
GocCreate ==
  /\ pc = "goc_create"
  /\ FreeIds # {}
  /\ LET id == CHOOSE n \in FreeIds : \A m \in FreeIds : n <= m IN
       /\ nodes' = create_node(NewHeadTags, id)
       /\ h' = [h EXCEPT !.creates = Append(@, [tags |-> NewHeadTags,
                                               count |-> HeadCount, id |-> id]),
                         !.trace = LogTo(@, "create")]
  /\ head_node_tags' = NewHeadTags
  /\ head_node' = None
  /\ elapsed' = 0
  /\ pc' = "goc_poll"
  /\ UNCHANGED <<config_file, cache, config, op, args, found, A, updater, last, changed, opsDone>>

\* The bound is compared with >= instead of >.
GocPollTimeout_OffByOne ==
  /\ pc = "goc_poll"
  /\ elapsed >= ReadinessBound
  /\ h' = [h EXCEPT !.outcome = "timeout"]
  /\ pc' = "goc_finally"
  /\ UNCHANGED <<config_file, nodes, cache, config, op, args, head_node, head_node_tags, found,
                 elapsed, A, updater, last, changed, opsDone>>

\* lines 309-310: the bound has passed: raise RuntimeError
GocPollTimeout ==
  /\ pc = "goc_poll"
  /\ elapsed > ReadinessBound
  /\ h' = [h EXCEPT !.outcome = "timeout"]
  /\ pc' = "goc_finally"
  /\ UNCHANGED <<config_file, nodes, cache, config, op, args, head_node, head_node_tags, found,
                 elapsed, A, updater, last, changed, opsDone>>

\* lines 311-315: one poll; exactly one node ends the loop, anything else sleeps
GocPoll ==
  /\ pc = "goc_poll"
  /\ ~(elapsed > ReadinessBound)
  /\ LET polled == non_terminated_nodes(head_node_tags) IN
       /\ found' = polled
       /\ IF Cardinality(polled) = 1
          THEN /\ head_node' = CHOOSE n \in polled : TRUE
               /\ h' = [h EXCEPT !.lastPoll = polled, !.polls = 0,
                                 !.trace = LogTo(@, "poll")]
               /\ pc' = "goc_mounts"
               /\ elapsed' = 0
          ELSE /\ elapsed' = elapsed + PollInterval
               /\ h' = [h EXCEPT !.lastPoll = polled, !.polls = @ + 1,
                                 !.trace = LogTo(@, "poll")]
               /\ UNCHANGED <<config_file, head_node, pc>>
  /\ UNCHANGED <<config_file, nodes, cache, config, op, args, head_node_tags, A, updater,
                 last, changed, opsDone>>

\* line 327 / 338: the two paths injected on the head
remote_key_path == "~/ray_bootstrap_key.pem"
remote_config_path == "~/ray_bootstrap_config.yaml"

\* dict.pop(key, None)
Pop(d, key) == [k \in DOMAIN d \ {key} |-> d[k]]

\* lines 326-329: remote_config["auth"]: no proxy option, and the key at its
\* remote path unless kubernetes
remote_auth ==
  LET popped == Pop(config.auth, "ssh_proxy_command")
  IN IF config.provider_type # "kubernetes"
     THEN Update(popped, "ssh_private_key", remote_key_path)
     ELSE popped

\* The auth dict is shared with remote_config and takes its rewrites.
local_auth_Shared == remote_auth

\* line 323: remote_config = copy.deepcopy(config): config["auth"] is not the
\* dict that lines 326-329 rewrite
local_auth == config.auth

\* lines 323-335: the config written for the head
remote_config ==
  [auth |-> remote_auth,
   file_mounts |-> [remote_path \in DOMAIN config.file_mounts |-> remote_path],
   no_restart |-> args.no_restart,
   head_node |-> config.head_node,
   min_workers |-> config.min_workers,
   provider_type |-> config.provider_type]

\* lines 342-349: config["file_mounts"].update(...), on the dict of the config
\* itself: the remote config file, and the key unless kubernetes
injected_config ==
  LET withConfig == Update(config.file_mounts, remote_config_path, "ray-bootstrap-tmp")
  IN [config EXCEPT !.auth = local_auth,
                    !.file_mounts =
        IF config.provider_type # "kubernetes"
        THEN Update(withConfig, remote_key_path, local_auth["ssh_private_key"])
        ELSE withConfig]

\* lines 319-349: runtime hash, remote config, the two injected file mounts
GocMounts ==
  /\ pc = "goc_mounts"
  /\ config' = injected_config
  /\ h' = [h EXCEPT !.trace = LogTo(@, "mounts"),
                    !.remoteWritten = TRUE, !.remote = remote_config]
  /\ pc' = "goc_updater"
  /\ UNCHANGED <<config_file, nodes, cache, op, args, head_node, head_node_tags, found,
                 elapsed, A, updater, last, changed, opsDone>>

\* config["initialization_commands"], config["head_setup_commands"],
\* config["head_start_ray_commands"]
initialization_commands == <<"init">>
head_setup_commands == <<"setup">>
head_start_ray_commands == <<"ray start">>

\* lines 351-359: the command lists by flag
init_commands == IF args.restart_only THEN <<>> ELSE head_setup_commands
ray_start_commands ==
  IF args.restart_only THEN head_start_ray_commands
  ELSE IF args.no_restart THEN <<>> ELSE head_start_ray_commands

\* lines 364-376: updater = NodeUpdaterThread(node_id=head_node, ...); start()
GocUpdaterStart ==
  /\ pc = "goc_updater"
  /\ updater' = [state |-> "started", node |-> head_node, exitcode |-> None,
                 initialization_commands |-> initialization_commands,
                 setup_commands |-> init_commands,
                 ray_start_commands |-> ray_start_commands]
  /\ h' = [h EXCEPT !.updaterStarts = @ + 1, !.trace = LogTo(@, "updater.start")]
  /\ pc' = "goc_join"
  /\ UNCHANGED <<config_file, nodes, cache, config, op, args, head_node, head_node_tags, found,
                 elapsed, A, last, changed, opsDone>>

\* The updater thread: sync the file mounts, then run the initialization,
\* the setup and the start commands it was given, in that order.
UpdaterSync ==
  /\ updater.state = "started"
  /\ \/ /\ updater' = [updater EXCEPT !.state = "synced"]
        /\ h' = [h EXCEPT !.trace = LogTo(@, "sync")]
     \/ /\ updater' = [updater EXCEPT !.state = "done", !.exitcode = 1]
        /\ h' = [h EXCEPT !.trace = LogTo(LogTo(@, "sync"), "updater.done")]
  /\ UNCHANGED <<config_file, nodes, cache, config, op, pc, args, head_node, head_node_tags,
                 found, elapsed, A, last, changed, opsDone>>

UpdaterRun ==
  /\ updater.state = "synced"
  /\ \E code \in {0, 1} :
       updater' = [updater EXCEPT !.state = "done", !.exitcode = code]
  /\ h' = [h EXCEPT !.remoteCmds = @ + 1,
                    !.ran = updater.initialization_commands
                              \o updater.setup_commands
                              \o updater.ray_start_commands,
                    !.trace = LogTo(LogTo(@, "commands"), "updater.done")]
  /\ UNCHANGED <<config_file, nodes, cache, config, op, pc, args, head_node, head_node_tags,
                 found, elapsed, A, last, changed, opsDone>>

\* The caller does not wait for the thread.
Joined_NoWait == updater.state # "none"

\* updater.join() has returned
Joined == updater.state = "done"

\* line 377: updater.join()
GocJoin ==
  /\ pc = "goc_join"
  /\ Joined
  /\ h' = [h EXCEPT !.trace = LogTo(@, "join")]
  /\ pc' = "goc_refresh"
  /\ UNCHANGED <<config_file, nodes, cache, config, op, args, head_node, head_node_tags, found,
                 elapsed, A, updater, last, changed, opsDone>>

\* lines 379-385: refresh the node cache, query the head's ip
GocRefreshIp ==
  /\ pc = "goc_refresh"
  /\ found' = non_terminated_nodes(head_node_tags)
  /\ h' = [h EXCEPT !.ip = head_node, !.trace = LogTo(LogTo(@, "refresh"), "ip")]
  /\ pc' = "goc_exitcode"
  /\ UNCHANGED <<config_file, nodes, cache, config, op, args, head_node, head_node_tags,
                 elapsed, A, updater, last, changed, opsDone>>

\* The exit code of the updater is not looked at.
GocExitCode_Ignored ==
  /\ pc = "goc_exitcode"
  /\ h' = [h EXCEPT !.outcome = "returned", !.logged = h.ip]
  /\ pc' = "goc_finally"
  /\ UNCHANGED <<config_file, nodes, cache, config, op, args, head_node, head_node_tags, found,
                 elapsed, A, updater, last, changed, opsDone>>

\* lines 387-408: sys.exit(1) on a failed update, else report and return
GocExitCode ==
  /\ pc = "goc_exitcode"
  /\ h' = [h EXCEPT !.outcome = IF updater.exitcode # 0 THEN "exit" ELSE "returned",
                    !.exitcode = IF updater.exitcode # 0 THEN FailureExitCode ELSE @,
                    !.logged = h.ip]
  /\ pc' = "goc_finally"
  /\ UNCHANGED <<config_file, nodes, cache, config, op, args, head_node, head_node_tags, found,
                 elapsed, A, updater, last, changed, opsDone>>

\* lines 409-410: finally: provider.cleanup().  When _get_head_node made the
\* call (lines 715-723), a normal return goes on there; anything else
\* propagates to the top.
GocFinally ==
  /\ pc = "goc_finally"
  /\ IF op = "exec" /\ h.outcome = "returned"
     THEN /\ h' = [h EXCEPT !.cleanups = @ + 1, !.outcome = "running"]
          /\ pc' = "exec_head_again"
     ELSE /\ h' = [h EXCEPT !.cleanups = @ + 1]
          /\ pc' = "end"
  /\ UNCHANGED <<config_file, nodes, cache, config, op, args, head_node, head_node_tags, found,
                 elapsed, A, updater, last, changed, opsDone>>

\* -------------------------------------------------------- teardown_cluster

teardown_cluster ==
  /\ opsDone = 0
  /\ \E y, wo, kmw \in BOOL :
       Begin("down", [NoArgs EXCEPT !.yes = y, !.workers_only = wo,
                                    !.keep_min_workers = kmw],
             "td_confirm")

\* lines 132-138: confirm("This will destroy your cluster", yes) returns
TdConfirmed ==
  /\ pc = "td_confirm"
  /\ pc' = IF args.workers_only THEN "td_provider" ELSE "td_clean_shutdown"
  /\ UNCHANGED <<config_file, nodes, cache, config, op, args, head_node, head_node_tags, found,
                 elapsed, A, updater, h, last, changed, opsDone>>

\* line 138: confirm raises click.Abort; no provider handle is open yet
TdDeclined ==
  /\ pc = "td_confirm"
  /\ ~args.yes
  /\ h' = [h EXCEPT !.outcome = "declined"]
  /\ pc' = "end"
  /\ UNCHANGED <<config_file, nodes, cache, config, op, args, head_node, head_node_tags, found,
                 elapsed, A, updater, last, changed, opsDone>>

\* cmd_runner.run(cmd, exit_on_fail=...): the command succeeds, or it fails
\* and the runner ends the process (exit_on_fail) or raises.
RunOutcomes(exit_on_fail) == {"ok", IF exit_on_fail THEN "exit" ELSE "raise"}

\* lines 140-154: exec_cluster(config_file, cmd="ray stop", start=False, ...)
\* inside try / except Exception.  exec_cluster resolves the config with the
\* cache allowed (line 486), looks the head up through a provider handle of
\* its own (488), opens a second handle (491) and runs the command through
\* _exec with exit_on_fail=True (566-571).  An exception (the cache file does
\* not parse, no head is found) is logged and ignored; a process exit is not
\* an Exception and ends teardown_cluster.
TdCleanShutdown ==
  /\ pc = "td_clean_shutdown"
  /\ cache' = bootstrap_cache(FALSE)
  /\ LET hb == bootstrap_history(h, FALSE)
         heads == non_terminated_nodes([type |-> NODE_TYPE_HEAD]) IN
       \/ /\ hb.resolve = "failed"
          /\ h' = [hb EXCEPT !.shutdown = "config_error"]
          /\ pc' = "td_provider"
          /\ UNCHANGED found
       \/ /\ hb.resolve # "failed"
          /\ heads = {}
          /\ found' = heads
          /\ h' = [hb EXCEPT !.opened = @ + 1, !.cleanups = @ + 1,
                             !.shutdown = "no_head"]
          /\ pc' = "td_provider"
       \/ /\ hb.resolve # "failed"
          /\ heads # {}
          /\ found' = heads
          /\ \E r \in RunOutcomes(TRUE) :
               /\ h' = [hb EXCEPT !.opened = @ + 2, !.cleanups = @ + 2,
                                  !.remoteCmds = @ + 1,
                                  !.shutdown = IF r = "ok" THEN "ok" ELSE "cmd_failed",
                                  !.outcome = IF r = "exit" THEN "exit" ELSE @]
               /\ pc' = IF r = "exit" THEN "end" ELSE "td_provider"
  /\ UNCHANGED <<config_file, nodes, config, op, args, head_node, head_node_tags, elapsed, A,
                 updater, last, changed, opsDone>>

\* line 156: provider = get_node_provider(...)
TdProvider ==
  /\ pc = "td_provider"
  /\ h' = [h EXCEPT !.opened = @ + 1,
                    !.w0 = Cardinality(VisibleWorkers),
                    !.lagging0 = \E n \in NodeIds : nodes[n].st = "stopping"]
  /\ pc' = "td_query"
  /\ UNCHANGED <<config_file, nodes, cache, config, op, args, head_node, head_node_tags, found,
                 elapsed, A, updater, last, changed, opsDone>>

\* line 169: random.sample(workers, k): every k-subset may be drawn
Samples(population, k) == {S \in SUBSET population : Cardinality(S) = k}

\* lines 159-178: remaining_nodes(), as the set of lists it may return
remaining_nodes ==
  LET workers == non_terminated_nodes([type |-> NODE_TYPE_WORKER])
      kept == IF args.keep_min_workers
              THEN Samples(workers, Cardinality(workers) - config.min_workers)
              ELSE {workers}
      head == non_terminated_nodes([type |-> NODE_TYPE_HEAD])
  IN IF args.workers_only THEN kept ELSE {head \cup w : w \in kept}

\* random.sample raises ValueError for a negative sample size
SampleFails ==
  /\ args.keep_min_workers
  /\ Cardinality(non_terminated_nodes([type |-> NODE_TYPE_WORKER]))
       - config.min_workers < 0

\* lines 182 and 189: A = remaining_nodes()
TdQuery ==
  /\ pc = "td_query"
  /\ ~SampleFails
  /\ A' \in remaining_nodes
  /\ h' = [h EXCEPT !.lastA = A, !.queries = IF @ < 2 THEN @ + 1 ELSE @]
  /\ found' = A'
  /\ pc' = "td_loop"
  /\ UNCHANGED <<config_file, nodes, cache, config, op, args, head_node, head_node_tags,
                 elapsed, updater, last, changed, opsDone>>

\* lines 169, 190: the ValueError leaves through the finally clause
TdQueryRaises ==
  /\ pc = "td_query"
  /\ SampleFails
  /\ h' = [h EXCEPT !.outcome = "error"]
  /\ pc' = "td_finally"
  /\ UNCHANGED <<config_file, nodes, cache, config, op, args, head_node, head_node_tags, found,
                 elapsed, A, updater, last, changed, opsDone>>

\* lines 184-188: while A: provider.terminate_nodes(A); time.sleep(1)
TdTerminate ==
  /\ pc = "td_loop"
  /\ A # {}
  /\ nodes' = terminate_nodes(A)
  /\ h' = [h EXCEPT !.requested = @ \cup A,
                    !.requestedWorkers =
                       @ \cup {n \in A : node_tags(n).type = NODE_TYPE_WORKER}]
  /\ pc' = "td_query"
  /\ UNCHANGED <<config_file, cache, config, op, args, head_node, head_node_tags, found,
                 elapsed, A, updater, last, changed, opsDone>>

\* The loop gives up although nodes remain.
TdLoopEnds_GivesUp ==
  /\ pc = "td_loop"
  /\ h' = [h EXCEPT !.outcome = "returned"]
  /\ pc' = "td_finally"
  /\ UNCHANGED <<config_file, nodes, cache, config, op, args, head_node, head_node_tags, found,
                 elapsed, A, updater, last, changed, opsDone>>

\* line 184: the loop ends when A is empty
TdLoopEnds ==
  /\ pc = "td_loop"
  /\ A = {}
  /\ h' = [h EXCEPT !.outcome = "returned"]
  /\ pc' = "td_finally"
  /\ UNCHANGED <<config_file, nodes, cache, config, op, args, head_node, head_node_tags, found,
                 elapsed, A, updater, last, changed, opsDone>>

\* lines 190-191: finally: provider.cleanup()
TdFinally ==
  /\ pc = "td_finally"
  /\ h' = [h EXCEPT !.cleanups = @ + 1]
  /\ pc' = "end"
  /\ UNCHANGED <<config_file, nodes, cache, config, op, args, head_node, head_node_tags, found,
                 elapsed, A, updater, last, changed, opsDone>>

\* ------------------------------------------------------------ exec_cluster

\* line 37
RUN_ENV_TYPES == {"auto", "host", "docker"}

\* A command line is a sequence of pieces of text; SEP is the piece "; ".
SEP == "; "

\* str.join: the items with the separator between them
RECURSIVE join(_, _)
join(sep, items) ==
  IF items = <<>> THEN <<>>
  ELSE IF Len(items) = 1 THEN <<items[1]>>
  ELSE <<items[1], sep>> \o join(sep, Tail(items))

ExecArgs ==
  {[NoArgs EXCEPT !.yes = TRUE, !.cmd = c, !.stop = st, !.start = sa,
                  !.run_env = re, !.screen = sc, !.tmux = tm] :
     c \in {<<>>, <<"cmd">>}, st \in BOOL, sa \in BOOL, re \in RUN_ENV_TYPES,
     sc \in BOOL, tm \in BOOL}

exec_cluster ==
  /\ opsDone = 0
  /\ \E a \in ExecArgs : Begin("exec", a, "exec_bootstrap")

\* exec_cluster as a later command of the session.
exec_cluster_again ==
  /\ opsDone > 0
  /\ opsDone < MaxOps
  /\ last.op = "up"
  /\ \E cmd \in {<<>>, <<"cmd">>}, start \in BOOL :
       Begin("exec", [NoArgs EXCEPT !.yes = TRUE, !.cmd = cmd, !.start = start],
             "exec_bootstrap")

\* lines 480-486: the two assertions, then config = _bootstrap_config(config)
ExecBootstrap ==
  /\ pc = "exec_bootstrap"
  /\ IF (args.screen /\ args.tmux) \/ args.run_env \notin RUN_ENV_TYPES
     THEN /\ h' = [h EXCEPT !.outcome = "error"]
          /\ pc' = "end"
          /\ UNCHANGED cache
     ELSE /\ cache' = bootstrap_cache(FALSE)
          /\ LET hb == bootstrap_history(h, FALSE) IN
               IF hb.resolve = "failed"
               THEN /\ h' = [hb EXCEPT !.outcome = "error"]
                    /\ pc' = "end"
               ELSE /\ h' = hb
                    /\ pc' = "exec_head"
  /\ UNCHANGED <<config_file, nodes, config, op, args, head_node, head_node_tags,
                 found, elapsed, A, updater, last, changed, opsDone>>

\* lines 698-726: _get_head_node(config, ..., create_if_needed) through a
\* provider handle of its own: the first head reported, else
\* get_or_create_head_node(yes=True) when create_if_needed, else RuntimeError.
_get_head_node(create_if_needed, onFound, onRaise) ==
  LET heads == non_terminated_nodes([type |-> NODE_TYPE_HEAD])
      hq == [h EXCEPT !.opened = @ + 1, !.cleanups = @ + 1,
                      !.lookups = Append(@, heads)]
  IN /\ found' = heads
     /\ IF heads # {}
        THEN /\ head_node' \in heads
             /\ h' = hq
             /\ pc' = onFound
        ELSE /\ head_node' = None
             /\ IF create_if_needed
                THEN /\ h' = hq
                     /\ pc' = "goc_query"
                ELSE /\ h' = [hq EXCEPT !.outcome = "error"]
                     /\ pc' = onRaise

\* lines 488-489: head_node = _get_head_node(..., create_if_needed=start)
ExecGetHead ==
  /\ pc = "exec_head"
  /\ _get_head_node(args.start, "exec_provider", "end")
  /\ UNCHANGED <<config_file, nodes, cache, config, op, args, head_node_tags,
                 elapsed, A, updater, last, changed, opsDone>>

\* lines 722-723: after get_or_create_head_node, _get_head_node once more
ExecGetHeadAgain ==
  /\ pc = "exec_head_again"
  /\ _get_head_node(FALSE, "exec_provider", "end")
  /\ UNCHANGED <<config_file, nodes, cache, config, op, args, head_node_tags,
                 elapsed, A, updater, last, changed, opsDone>>

ray_stop == "ray stop"
ray_teardown == "ray teardown ~/ray_bootstrap_config.yaml --yes --workers-only"
sudo_shutdown == "sudo shutdown -h now"

\* lines 508-516: the command line exec_cluster builds.  cmd += "; ".join(...)
\* puts the joined text right after cmd; "; sudo shutdown -h now" is the
\* separator followed by the shutdown command.
exec_cmd(cmd, stop, is_docker, run_env) ==
  IF cmd # <<>> /\ stop
  THEN LET stopped == cmd \o join(SEP, <<ray_stop, ray_teardown>>)
       IN IF is_docker /\ run_env = "docker"
          THEN stopped
          ELSE stopped \o <<SEP, sudo_shutdown>>
  ELSE cmd

\* lines 491-516: the provider handle, the updater of the head, the command
\* line; is_docker is what kind of runner the updater built.
ExecProvider ==
  /\ pc = "exec_provider"
  /\ updater' = [NoUpdater EXCEPT !.state = "built", !.node = head_node]
  /\ \E is_docker \in BOOL :
       h' = [h EXCEPT !.opened = @ + 1,
                      !.updaters = Append(@, head_node),
                      !.cmd = exec_cmd(args.cmd, args.stop, is_docker, args.run_env),
                      !.shutdownAfter = (args.cmd # <<>> /\ args.stop
                                           /\ is_docker /\ args.run_env = "docker")]
  /\ pc' = "exec_run"
  /\ UNCHANGED <<config_file, nodes, cache, config, op, args, head_node,
                 head_node_tags, found, elapsed, A, last, changed, opsDone>>

\* lines 552-565: _exec wraps a command in a detached screen or tmux
\* invocation of bash -c quote(cmd + "; exec bash")
exec_wrap(cmd, screen, tmux) ==
  IF cmd = <<>> THEN "none"
  ELSE IF screen THEN "screen" ELSE IF tmux THEN "tmux" ELSE "none"

exec_script(cmd, screen, tmux) ==
  IF exec_wrap(cmd, screen, tmux) = "none" THEN cmd ELSE cmd \o <<SEP, "exec bash">>

\* lines 518-540 and 566-571: _exec(updater, cmd, ...) runs the command on
\* the updater's node with exit_on_fail=True; the result is returned.
ExecRun ==
  /\ pc = "exec_run"
  /\ \E r \in RunOutcomes(TRUE) :
       h' = [h EXCEPT !.wrap = exec_wrap(h.cmd, args.screen, args.tmux),
                      !.runs = Append(@, [node |-> updater.node,
                                         cmd |-> exec_script(h.cmd, args.screen, args.tmux),
                                         run_env |-> args.run_env]),
                      !.remoteCmds = @ + 1,
                      !.outcome = IF r = "ok" THEN "returned" ELSE "exit"]
  /\ pc' = "exec_finally"
  /\ UNCHANGED <<config_file, nodes, cache, config, op, args, head_node,
                 head_node_tags, found, elapsed, A, updater, last, changed, opsDone>>

\* lines 541-542: finally: provider.cleanup()
ExecFinally ==
  /\ pc = "exec_finally"
  /\ h' = [h EXCEPT !.cleanups = @ + 1]
  /\ pc' = "end"
  /\ UNCHANGED <<config_file, nodes, cache, config, op, args, head_node,
                 head_node_tags, found, elapsed, A, updater, last, changed, opsDone>>

\* ------------------------------------------------------------------- rsync

\* The orders in which a provider may list the nodes of a set.
Orders(S) ==
  {f \in [1..Cardinality(S) -> S] : \A i, j \in DOMAIN f : f[i] = f[j] => i = j}

\* The keys of a dict, in the order a loop over it visits them.
RECURSIVE Keys(_)
Keys(d) ==
  IF DOMAIN d = {} THEN <<>>
  ELSE LET k == CHOOSE x \in DOMAIN d : TRUE
       IN <<k>> \o Keys([x \in DOMAIN d \ {k} |-> d[x]])

rsync ==
  /\ opsDone = 0
  /\ \E dn, an, src, tgt \in BOOL :
       Begin("rsync", [NoArgs EXCEPT !.down = dn, !.all_nodes = an,
                                     !.source = src, !.target = tgt],
             "rs_bootstrap")

\* lines 590-596: the assertion, then config = _bootstrap_config(config)
RsBootstrap ==
  /\ pc = "rs_bootstrap"
  /\ IF args.source # args.target
     THEN /\ h' = [h EXCEPT !.outcome = "error"]
          /\ pc' = "end"
          /\ UNCHANGED cache
     ELSE /\ cache' = bootstrap_cache(FALSE)
          /\ LET hb == bootstrap_history(h, FALSE) IN
               IF hb.resolve = "failed"
               THEN /\ h' = [hb EXCEPT !.outcome = "error"]
                    /\ pc' = "end"
               ELSE /\ h' = hb
                    /\ pc' = "rs_provider"
  /\ UNCHANGED <<config_file, nodes, config, op, args, head_node, head_node_tags,
                 found, elapsed, A, updater, last, changed, opsDone>>

\* lines 683-695: _get_worker_nodes, through a provider handle of its own
_get_worker_nodes == Orders(non_terminated_nodes([type |-> NODE_TYPE_WORKER]))

\* lines 598-605: the provider handle; nodes = [] or the workers
RsProvider ==
  /\ pc = "rs_provider"
  /\ IF args.all_nodes
     THEN \E workers \in _get_worker_nodes :
            h' = [h EXCEPT !.opened = @ + 2, !.cleanups = @ + 1, !.todo = workers]
     ELSE h' = [h EXCEPT !.opened = @ + 1, !.todo = <<>>]
  /\ pc' = "rs_head"
  /\ UNCHANGED <<config_file, nodes, cache, config, op, args, head_node,
                 head_node_tags, found, elapsed, A, updater, last, changed, opsDone>>

\* lines 608-612: _get_head_node(..., create_if_needed=False)
RsGetHead ==
  /\ pc = "rs_head"
  /\ _get_head_node(FALSE, "rs_append", "rs_finally")
  /\ UNCHANGED <<config_file, nodes, cache, config, op, args, head_node_tags,
                 elapsed, A, updater, last, changed, opsDone>>

\* line 607: nodes += [head]
RsAppendHead ==
  /\ pc = "rs_append"
  /\ h' = [h EXCEPT !.todo = Append(@, head_node)]
  /\ pc' = "rs_loop"
  /\ UNCHANGED <<config_file, nodes, cache, config, op, args, head_node,
                 head_node_tags, found, elapsed, A, updater, last, changed, opsDone>>

\* updater.sync_file_mounts(rsync): one call of rsync per file mount
sync_file_mounts(node, primitive, file_mounts) ==
  [i \in 1..Len(Keys(file_mounts)) |->
     [node |-> node, primitive |-> primitive, source |-> Keys(file_mounts)[i]]]

\* The upload primitive whatever the direction.
rsync_primitive_Up == "rsync_up"

\* lines 628-631
rsync_primitive == IF args.down THEN "rsync_down" ELSE "rsync_up"

\* lines 615-636: one turn of the loop: the updater of the node, then the
\* one transfer asked for or the file mounts
RsNode ==
  /\ pc = "rs_loop"
  /\ h.todo # <<>>
  /\ LET node_id == Head(h.todo) IN
       /\ updater' = [NoUpdater EXCEPT !.state = "built", !.node = node_id]
       /\ h' = [h EXCEPT
                  !.todo = Tail(@),
                  !.updaters = Append(@, node_id),
                  !.transfers =
                     IF args.source /\ args.target
                     THEN Append(@, [node |-> node_id, primitive |-> rsync_primitive,
                                     source |-> "source"])
                     ELSE @ \o sync_file_mounts(node_id, rsync_primitive,
                                                config.file_mounts)]
  /\ UNCHANGED <<config_file, nodes, cache, config, op, pc, args, head_node,
                 head_node_tags, found, elapsed, A, last, changed, opsDone>>

\* line 615: the loop is through
RsLoopEnds ==
  /\ pc = "rs_loop"
  /\ h.todo = <<>>
  /\ h' = [h EXCEPT !.outcome = "returned"]
  /\ pc' = "rs_finally"
  /\ UNCHANGED <<config_file, nodes, cache, config, op, args, head_node,
                 head_node_tags, found, elapsed, A, updater, last, changed, opsDone>>

\* The handle is released only when the loop got through.
RsFinally_OnSuccess ==
  /\ pc = "rs_finally"
  /\ h' = [h EXCEPT !.cleanups = IF h.outcome = "returned" THEN @ + 1 ELSE @]
  /\ pc' = "end"
  /\ UNCHANGED <<config_file, nodes, cache, config, op, args, head_node,
                 head_node_tags, found, elapsed, A, updater, last, changed, opsDone>>

\* lines 638-639: finally: provider.cleanup()
RsFinally ==
  /\ pc = "rs_finally"
  /\ h' = [h EXCEPT !.cleanups = @ + 1]
  /\ pc' = "end"
  /\ UNCHANGED <<config_file, nodes, cache, config, op, args, head_node,
                 head_node_tags, found, elapsed, A, updater, last, changed, opsDone>>

\* --------------------------------------------------------------- kill_node

kill_node ==
  /\ opsDone = 0
  /\ \E y, hd \in BOOL :
       Begin("kill", [NoArgs EXCEPT !.yes = y, !.hard = hd], "kill_bootstrap")

\* lines 197-200: config = _bootstrap_config(config)
KillBootstrap ==
  /\ pc = "kill_bootstrap"
  /\ cache' = bootstrap_cache(FALSE)
  /\ LET hb == bootstrap_history(h, FALSE) IN
       IF hb.resolve = "failed"
       THEN /\ h' = [hb EXCEPT !.outcome = "error"]
            /\ pc' = "end"
       ELSE /\ h' = hb
            /\ pc' = "kill_confirm"
  /\ UNCHANGED <<config_file, nodes, config, op, args, head_node, head_node_tags,
                 found, elapsed, A, updater, last, changed, opsDone>>

\* line 202: confirm("This will kill a node in your cluster", yes) returns
KillConfirmed ==
  /\ pc = "kill_confirm"
  /\ pc' = "kill_provider"
  /\ UNCHANGED <<config_file, nodes, cache, config, op, args, head_node,
                 head_node_tags, found, elapsed, A, updater, h, last, changed, opsDone>>

\* line 202: confirm raises click.Abort; no provider handle is open yet
KillDeclined ==
  /\ pc = "kill_confirm"
  /\ ~args.yes
  /\ h' = [h EXCEPT !.outcome = "declined"]
  /\ pc' = "end"
  /\ UNCHANGED <<config_file, nodes, cache, config, op, args, head_node,
                 head_node_tags, found, elapsed, A, updater, last, changed, opsDone>>

\* lines 204-210: the provider handle, the workers, node = random.choice(nodes)
\* (IndexError on an empty list)
KillProvider ==
  /\ pc = "kill_provider"
  /\ LET workers == non_terminated_nodes([type |-> NODE_TYPE_WORKER]) IN
       /\ found' = workers
       /\ IF workers = {}
          THEN /\ h' = [h EXCEPT !.opened = @ + 1, !.outcome = "error"]
               /\ pc' = "kill_finally"
               /\ UNCHANGED head_node
          ELSE /\ h' = [h EXCEPT !.opened = @ + 1]
               /\ head_node' \in workers
               /\ pc' = "kill_act"
  /\ UNCHANGED <<config_file, nodes, cache, config, op, args, head_node_tags,
                 elapsed, A, updater, last, changed, opsDone>>

\* lines 211-227: terminate the node, or run "ray stop" on it
KillAct ==
  /\ pc = "kill_act"
  /\ IF args.hard
     THEN /\ nodes' = terminate_nodes({head_node})
          /\ h' = [h EXCEPT !.terminates = Append(@, head_node)]
          /\ pc' = "kill_ip"
          /\ UNCHANGED updater
     ELSE /\ updater' = [NoUpdater EXCEPT !.state = "built", !.node = head_node]
          /\ \E r \in RunOutcomes(TRUE) :
               /\ h' = [h EXCEPT !.updaters = Append(@, head_node),
                                 !.runs = Append(@, [node |-> head_node,
                                                    cmd |-> <<ray_stop>>,
                                                    run_env |-> "auto"]),
                                 !.remoteCmds = @ + 1,
                                 !.outcome = IF r = "ok" THEN @ ELSE "exit"]
               /\ pc' = IF r = "ok" THEN "kill_ip" ELSE "kill_finally"
          /\ UNCHANGED nodes
  /\ UNCHANGED <<config_file, cache, config, op, args, head_node, head_node_tags,
                 found, elapsed, A, last, changed, opsDone>>

\* lines 229-234: time.sleep(5), then the node's ip
KillIp ==
  /\ pc = "kill_ip"
  /\ h' = [h EXCEPT !.ip = head_node, !.outcome = "returned"]
  /\ pc' = "kill_finally"
  /\ UNCHANGED <<config_file, nodes, cache, config, op, args, head_node,
                 head_node_tags, found, elapsed, A, updater, last, changed, opsDone>>

\* lines 235-236: finally: provider.cleanup()
KillFinally ==
  /\ pc = "kill_finally"
  /\ h' = [h EXCEPT !.cleanups = @ + 1]
  /\ pc' = "end"
  /\ UNCHANGED <<config_file, nodes, cache, config, op, args, head_node,
                 head_node_tags, found, elapsed, A, updater, last, changed, opsDone>>

\* ------------------------------- get_head_node_ip and get_worker_node_ips

get_head_node_ip ==
  /\ opsDone = 0
  /\ Begin("head_ip", NoArgs, "ip_provider")

get_worker_node_ips ==
  /\ opsDone = 0
  /\ Begin("worker_ips", NoArgs, "wips_query")

\* lines 645-649: the config is read (not resolved), the handle opened
IpProvider ==
  /\ pc = "ip_provider"
  /\ h' = [h EXCEPT !.opened = @ + 1]
  /\ pc' = "ip_head"
  /\ UNCHANGED <<config_file, nodes, cache, config, op, args, head_node,
                 head_node_tags, found, elapsed, A, updater, last, changed, opsDone>>

\* line 651: head_node = _get_head_node(config, config_file, ...)
IpGetHead ==
  /\ pc = "ip_head"
  /\ _get_head_node(FALSE, "ip_query", "ip_finally")
  /\ UNCHANGED <<config_file, nodes, cache, config, op, args, head_node_tags,
                 elapsed, A, updater, last, changed, opsDone>>

\* lines 652-655: the head's ip
IpQuery ==
  /\ pc = "ip_query"
  /\ h' = [h EXCEPT !.ip = head_node, !.outcome = "returned"]
  /\ pc' = "ip_finally"
  /\ UNCHANGED <<config_file, nodes, cache, config, op, args, head_node,
                 head_node_tags, found, elapsed, A, updater, last, changed, opsDone>>

\* lines 669-678: the handle, the workers, their ips
WipsQuery ==
  /\ pc = "wips_query"
  /\ found' = non_terminated_nodes([type |-> NODE_TYPE_WORKER])
  /\ h' = [h EXCEPT !.opened = @ + 1, !.outcome = "returned"]
  /\ pc' = "ip_finally"
  /\ UNCHANGED <<config_file, nodes, cache, config, op, args, head_node,
                 head_node_tags, elapsed, A, updater, last, changed, opsDone>>

\* lines 656-657 and 679-680: finally: provider.cleanup()
IpFinally ==
  /\ pc = "ip_finally"
  /\ h' = [h EXCEPT !.cleanups = @ + 1]
  /\ pc' = "end"
  /\ UNCHANGED <<config_file, nodes, cache, config, op, args, head_node,
                 head_node_tags, found, elapsed, A, updater, last, changed, opsDone>>

\* ------------------------------------------------------------- exceptions

\* Where an exception of the provider call (or updater constructor) that
\* comes next goes: to the finally clause of the try block the call is in,
\* or out of the command when no handle of the command is open.
FinallyOf ==
  [p \in {"goc_launch_hash", "goc_terminate", "goc_create", "goc_poll",
           "goc_mounts", "goc_updater", "goc_refresh"} |-> "goc_finally"]
  @@ [p \in {"td_query", "td_loop"} |-> "td_finally"]
  @@ [p \in {"exec_run"} |-> "exec_finally"]
  @@ [p \in {"rs_loop"} |-> "rs_finally"]
  @@ [p \in {"kill_act", "kill_ip"} |-> "kill_finally"]
  @@ [p \in {"ip_query"} |-> "ip_finally"]

\* Where an exception out of _get_head_node goes.
HeadLookupFinallyOf ==
  [p \in {"exec_head", "exec_head_again"} |-> "end"]
  @@ [p \in {"rs_head"} |-> "rs_finally"]
  @@ [p \in {"ip_head"} |-> "ip_finally"]

\* lines 702-709: the query of _get_head_node raises; the finally clause of
\* _get_head_node releases its handle on the way out.
HeadLookupRaises ==
  /\ pc \in DOMAIN HeadLookupFinallyOf
  /\ h' = [h EXCEPT !.opened = @ + 1, !.cleanups = @ + 1, !.outcome = "error"]
  /\ pc' = HeadLookupFinallyOf[pc]
  /\ UNCHANGED <<config_file, nodes, cache, config, op, args, head_node,
                 head_node_tags, found, elapsed, A, updater, last, changed, opsDone>>

\* A provider call raises.
ProviderRaises ==
  /\ pc \in DOMAIN FinallyOf
  /\ h.outcome = "running"
  /\ h' = [h EXCEPT !.outcome = "error"]
  /\ pc' = FinallyOf[pc]
  /\ UNCHANGED <<config_file, nodes, cache, config, op, args, head_node,
                 head_node_tags, found, elapsed, A, updater, last, changed, opsDone>>

\* ------------------------------------------------------------ specification

Provider == \E n \in NodeIds : ProviderShows(n) \/ ProviderHonors(n)

Reconcile ==
  \/ create_or_update_cluster \/ UpBootstrap
  \/ GocQuery \/ GocConfirmed \/ GocDeclined \/ GocLaunchHash
  \/ GocConfirmedOutdated \/ GocTerminate \/ GocCreate
  \/ GocPollTimeout \/ GocPoll \/ GocMounts \/ GocUpdaterStart
  \/ UpdaterSync \/ UpdaterRun
  \/ GocJoin \/ GocRefreshIp \/ GocExitCode \/ GocFinally

Teardown ==
  \/ teardown_cluster \/ TdConfirmed \/ TdDeclined \/ TdCleanShutdown
  \/ TdProvider \/ TdQuery \/ TdQueryRaises \/ TdTerminate \/ TdLoopEnds
  \/ TdFinally

\* One command, on any cluster.
Next == Provider \/ Reconcile \/ Teardown \/ Return

Spec == Init /\ [][Next]_vars

\* create_or_update_cluster run repeatedly on a cluster; it reads neither the
\* workers nor min_workers.
InitUp ==
  /\ Init
  /\ Cardinality(VisibleWorkers) = 1
  /\ config.min_workers = 0

NextUp == Provider \/ Reconcile \/ create_or_update_cluster_again \/ Return

SpecUp == InitUp /\ [][NextUp]_vars

\* Between two runs the user changes the head's launch spec in the config
\* file.  The changed config has another content hash, hence another cache
\* file, which does not exist yet.
EditConfig ==
  /\ pc = "done"
  /\ opsDone > 0
  /\ opsDone < MaxOps
  /\ config_file.head_node = DesiredSpec
  /\ \E s \in LaunchSpecs \ {DesiredSpec} :
       config_file' = [config_file EXCEPT !.head_node = s]
  /\ config' = config_file'
  /\ cache' = "absent"
  /\ UNCHANGED <<nodes, op, pc, args, head_node, head_node_tags, found, elapsed,
                 A, updater, h, last, changed, opsDone>>

\* create_or_update_cluster run repeatedly while the config file is edited.
NextEdit == NextUp \/ EditConfig

SpecEdit == InitUp /\ [][NextEdit]_vars

Exec ==
  \/ exec_cluster \/ ExecBootstrap \/ ExecGetHead \/ ExecGetHeadAgain
  \/ ExecProvider \/ ExecRun \/ ExecFinally

Rsync ==
  \/ rsync \/ RsBootstrap \/ RsProvider \/ RsGetHead \/ RsAppendHead
  \/ RsNode \/ RsLoopEnds \/ RsFinally

Kill ==
  \/ kill_node \/ KillBootstrap \/ KillConfirmed \/ KillDeclined
  \/ KillProvider \/ KillAct \/ KillIp \/ KillFinally

Lookups ==
  \/ get_head_node_ip \/ get_worker_node_ips
  \/ IpProvider \/ IpGetHead \/ IpQuery \/ WipsQuery \/ IpFinally

\* create_or_update_cluster on the config files of either kind of provider,
\* with and without a proxy option, with zero to MaxMounts file mounts.
InitKey ==
  /\ InitOf(ConfigsOf({0}, {DeclaredMounts(k) : k \in 0..MaxMounts},
                      ProviderTypes, BOOL, {TRUE}))
  /\ Cardinality(VisibleWorkers) = 1
  /\ cache = "absent"

NextKey == Provider \/ Reconcile \/ Return

SpecKey == InitKey /\ [][NextKey]_vars

\* create_or_update_cluster run repeatedly on config files that may be
\* invalid or name an unknown provider type, with a provider whose
\* bootstrap_config may raise, on a cluster whose head is out of date.
InitCache ==
  /\ InitOf(ConfigsOf({0}, {DeclaredMounts(1)}, {"aws", "no_such_type"},
                      {FALSE}, BOOL))
  /\ Cardinality(VisibleWorkers) = 1
  /\ \E n \in NodeIds :
       /\ nodes[n].tags.type = NODE_TYPE_HEAD
       /\ nodes[n].tags.launch # hash_launch_conf(config_file.head_node, AuthConfig)

NextCache ==
  \/ Provider \/ Reconcile \/ UpBootstrapRaises
  \/ create_or_update_cluster_again \/ Return

SpecCache == InitCache /\ [][NextCache]_vars

\* exec_cluster on a cluster, or after a create_or_update_cluster.
NextExec == Provider \/ Reconcile \/ Exec \/ exec_cluster_again \/ Return

SpecExec == InitUp /\ [][NextExec]_vars

\* Any one command of the module, on any cluster, with provider calls that
\* may raise.
InitOps == InitWith({MaxMinWorkers}, {DeclaredMounts(MaxMounts)})

NextOps ==
  \/ Provider \/ Reconcile \/ Teardown \/ Exec \/ Rsync \/ Kill \/ Lookups
  \/ ProviderRaises \/ HeadLookupRaises \/ Return

SpecOps == InitOps /\ [][NextOps]_vars

\* ------------------------------------------------------------------ claims

Ended == pc = "end"
UpEnded == op = "up" /\ Ended
DownEnded == op = "down" /\ Ended

\* C1: when create_or_update_cluster has returned normally and is run again
\* with the same config while the provider state is as that run left it, the
\* second run makes no create_node and no terminate_node call.
C1_SecondRunIdle ==
  (op = "up" /\ last.op = "up" /\ last.outcome = "returned" /\ h.quiet)
    => (h.creates = <<>> /\ h.terminates = <<>>)

\* C2: a run that found the head out of date and returned normally made one
\* terminate_node call (the old head) and one create_node call, and at its
\* return the provider reports at most one non-terminated head.
C2_ReplacesOne ==
  (UpEnded /\ h.outcome = "returned" /\ h.head0 # None /\ h.creates # <<>>)
    => /\ h.terminates = <<h.head0>>
       /\ Len(h.creates) = 1
       /\ Cardinality(VisibleHeads) <= 1

Events == {h.trace[i] : i \in DOMAIN h.trace}

\* Every a in the trace comes before every b.
Before(a, b) ==
  LET At(e) == {i \in DOMAIN h.trace : h.trace[i] = e}
  IN  \A i \in At(a) : \A j \in At(b) : i < j

\* The run found no head and no confirmation was refused.
EmptyStart == op = "up" /\ h.trace # <<>> /\ h.head0 = None

AfterPoll == {"goc_mounts", "goc_updater", "goc_join", "goc_refresh", "goc_exitcode"}

\* C3: on a cluster with no head (confirmation accepted) there is never a
\* terminate call and there is one create_node call, for count 1, tagged head,
\* with the desired launch hash and the head name; the node the poll ends on is
\* that node, visible; and the run returns normally unless the node was never
\* reported within the bound (timeout) or the updater failed (exit).
C3_CreatesOneHead ==
  EmptyStart =>
    /\ h.terminates = <<>>
    /\ Len(h.creates) <= 1
    /\ \A i \in DOMAIN h.creates :
         /\ h.creates[i].count = 1
         /\ h.creates[i].tags =
              [type |-> "head",
               launch |-> hash_launch_conf(config.head_node, AuthConfig),
               name |-> HeadNodeName]
    /\ (pc \in {"goc_poll"} \cup AfterPoll \/ h.outcome \in {"timeout", "exit", "returned"})
         => Len(h.creates) = 1
    /\ (pc \in AfterPoll \/ h.outcome \in {"exit", "returned"})
         => /\ head_node = h.creates[1].id
            /\ Visible(head_node)
            /\ h.lastPoll = {head_node}
    /\ Ended =>
         \/ h.outcome = "declined"
         \/ h.outcome = "returned" /\ updater.state = "done" /\ updater.exitcode = 0
         \/ h.outcome = "timeout" /\ h.lastPoll = {}
         \/ h.outcome = "exit" /\ updater.exitcode # 0

C3_Witness ==
  /\ EmptyStart /\ Ended /\ h.outcome = "returned"
  /\ Len(h.creates) = 1 /\ h.polls = 0 /\ Visible(head_node)

\* C4: after every terminate-then-requery cycle of teardown_cluster the
\* remaining target set is a subset of the previous one.
C4_NeverGains ==
  (op = "down" /\ pc = "td_loop" /\ h.queries >= 2) => A \subseteq h.lastA

InTeardownLoop == op = "down" /\ pc \in {"td_query", "td_loop", "td_finally", "end"}

\* C5: with keep_min_workers and W >= min_workers workers at the start,
\* teardown_cluster never asks for more than W - min_workers distinct workers
\* to be terminated, for exactly that many when it returns, and with
\* workers_only never for the head.
C5_KeepsMinWorkers ==
  (InTeardownLoop /\ args.keep_min_workers /\ ~h.lagging0
     /\ h.w0 >= config.min_workers /\ h.outcome # "declined")
    => /\ Cardinality(h.requestedWorkers) <= h.w0 - config.min_workers
       /\ args.workers_only => h.requested = h.requestedWorkers
       /\ h.outcome = "returned"
            => Cardinality(h.requestedWorkers) = h.w0 - config.min_workers

\* C6 as claimed: teardown_cluster returns only when the provider reports no
\* non-terminated worker, and no head unless workers_only.
C6_ReturnsWhenAllGone ==
  (op = "down" /\ h.outcome = "returned")
    => /\ VisibleWorkers = {}
       /\ ~args.workers_only => VisibleHeads = {}

\* C6, amended: teardown_cluster returns only after a remaining_nodes() call of
\* this run returned the empty list: no head is reported unless workers_only,
\* and no worker is reported, or with keep_min_workers at most min_workers of
\* them; the loop has no other exit but an exception of remaining_nodes()
\* (a process exit of the clean shutdown comes before the loop is entered).
C6_ReturnsWhenTargetEmpty ==
  op = "down" =>
    /\ h.outcome \in {"running", "declined", "returned", "error", "exit"}
    /\ (pc = "td_loop" /\ A # {}) => h.outcome = "running"
    /\ h.outcome = "error" => args.keep_min_workers
    /\ h.outcome = "exit" => h.queries = 0
    /\ h.outcome = "returned" =>
         /\ A = {}
         /\ h.queries >= 1
         /\ pc \in {"td_finally", "end"}
         /\ ~args.workers_only => VisibleHeads = {}
         /\ IF args.keep_min_workers
            THEN Cardinality(VisibleWorkers) <= config.min_workers
            ELSE VisibleWorkers = {}

C6_Witness ==
  /\ DownEnded /\ h.outcome = "returned" /\ args.keep_min_workers
  /\ h.requested # {} /\ VisibleWorkers # {}

\* C7: the readiness wait polls once a second; the update phase is entered
\* only after a poll that returned exactly one node; and when 50 seconds have
\* passed without such a poll the run fails and no updater is ever started.
C7_ReadinessPoll ==
  op = "up" =>
    /\ pc = "goc_poll" =>
         /\ elapsed = h.polls * 1
         /\ elapsed <= 50 + 1
         /\ elapsed > 50 => (ENABLED GocPollTimeout /\ ~ENABLED GocPoll)
    /\ (pc \in AfterPoll \/ updater.state # "none") =>
         /\ Cardinality(h.lastPoll) = 1
         /\ head_node \in h.lastPoll
    /\ h.outcome = "timeout" =>
         /\ elapsed > 50
         /\ h.polls > 50
         /\ Cardinality(h.lastPoll) # 1
         /\ updater.state = "none"
         /\ h.updaterStarts = 0

C7_Witness == UpEnded /\ h.outcome = "timeout" /\ h.creates # <<>>

ProviderCalls == {"query", "node_tags", "terminate", "create", "poll", "refresh", "ip"}

Pos(e) == CHOOSE i \in DOMAIN h.trace : h.trace[i] = e

\* C8: in one run create_node comes before the readiness poll, a successful
\* poll before the mounts are built and the updater started, the file sync
\* before the commands; between starting the updater and its completion the
\* caller is in join and makes no provider call; the ip is queried after the
\* updater has completed.
C8_Sequential ==
  op = "up" =>
    /\ Before("create", "poll")
    /\ Before("poll", "mounts")
    /\ Before("mounts", "updater.start")
    /\ Before("updater.start", "sync")
    /\ Before("sync", "commands")
    /\ Before("commands", "updater.done")
    /\ Before("updater.done", "join")
    /\ Before("join", "refresh")
    /\ Before("updater.done", "ip")
    /\ "mounts" \in Events => ("poll" \in Events /\ Cardinality(h.lastPoll) = 1)
    /\ "updater.start" \in Events => "mounts" \in Events
    /\ "commands" \in Events => "sync" \in Events
    /\ "sync" \in Events => "updater.start" \in Events
    /\ "ip" \in Events => "updater.done" \in Events
    /\ updater.state \in {"started", "synced"} => pc = "goc_join"
    /\ "updater.start" \in Events =>
         \A i \in DOMAIN h.trace :
           (h.trace[i] \in ProviderCalls /\ i > Pos("updater.start"))
             => ("updater.done" \in Events /\ i > Pos("updater.done"))

C8_Witness ==
  /\ UpEnded /\ h.outcome = "returned"
  /\ {"create", "poll", "mounts", "sync", "commands", "ip"} \subseteq Events

\* C9: when the updater has completed with a nonzero exit code, the run ends
\* with exit code 1, the updater was started once, no create or terminate
\* follows, the head's ip was queried and logged before the exit, and the
\* provider handle is released.
C9_UpdateFailure ==
  (op = "up" /\ updater.state = "done" /\ updater.exitcode # 0) =>
    /\ h.updaterStarts = 1
    /\ h.outcome \in {"running", "exit"}
    /\ Before("create", "updater.start")
    /\ Before("terminate", "updater.start")
    /\ h.outcome = "exit" =>
         /\ h.exitcode = 1
         /\ updater.node # None
         /\ h.ip = updater.node
         /\ h.logged = updater.node
    /\ Ended => (h.outcome = "exit" /\ h.opened = 1 /\ h.cleanups = 1)

C9_Witness == UpEnded /\ h.outcome = "exit" /\ h.exitcode = 1 /\ h.creates # <<>>

Untouched ==
  /\ h.creates = <<>>
  /\ h.terminates = <<>>
  /\ h.requested = {}
  /\ h.updaterStarts = 0
  /\ h.remoteCmds = 0

\* C10 as claimed: when a confirmation is refused, the command has created and
\* terminated no node, run no updater and no remote command, and made no
\* provider bootstrap call and no cache write.
C10_DeclinedTouchesNothing ==
  h.outcome = "declined" => (Untouched /\ h.bootstraps = 0 /\ h.cacheWrites = 0)

\* C10, amended: when a confirmation is refused, the command has created and
\* terminated no node and run no updater and no remote command; teardown_cluster
\* has made no provider bootstrap call and no cache write, while
\* create_or_update_cluster has resolved its config before asking: on a cache
\* miss it has made one bootstrap call and, unless no_config_cache, one write.
C10_DeclinedTouchesNoNode ==
  h.outcome = "declined" =>
    /\ Untouched
    /\ op = "down" => (h.bootstraps = 0 /\ h.cacheWrites = 0)
    /\ op = "up" =>
         /\ h.bootstraps <= 1
         /\ h.cacheWrites = IF h.bootstraps = 1 /\ ~args.no_config_cache THEN 1 ELSE 0

C10_Witness ==
  /\ UpEnded /\ h.outcome = "declined" /\ h.head0 # None
  /\ h.bootstraps = 1 /\ h.cacheWrites = 1

\* C12: a resolve with caching allowed that finds the resolved config in the
\* cache returns it as it is and makes no validate_config call, no provider
\* bootstrap call and no cache write; the cache entry stays, so that every
\* later resolve of the unchanged config with caching allowed is such a hit.
C12_CachedResolve ==
  /\ []((h.cache0 = "resolved" /\ ~args.no_config_cache)
         => /\ h.resolve = "cached"
            /\ h.validations = 0
            /\ h.bootstraps = 0
            /\ h.cacheWrites = 0)
  /\ [][cache = "resolved" => cache' = "resolved"]_vars

C12_Witness ==
  /\ UpEnded /\ opsDone > 0 /\ last.outcome = "returned"
  /\ h.resolve = "cached" /\ h.outcome = "returned"

\* C13: whether the cache entry is absent or corrupt, the resolve falls back
\* to the full resolution and does not fail.
C13_CacheAdvisory ==
  h.cache0 \in {"absent", "corrupt"} => h.resolve = "full"

\* C14 as claimed: whenever the resolve ran the full resolution, the resolved
\* config is in the cache when it returns, and a resolve with caching allowed
\* that follows is a hit.
C14_PersistsAfterFull ==
  h.resolve = "full" => (cache = "resolved" /\ bootstrap_result(FALSE) = "cached")

\* C14, amended: a full resolution with caching allowed (no cache file was
\* there) writes the resolved config once, and a resolve with caching allowed
\* that follows is a hit; with caching not allowed nothing is written and the
\* cache file is left as it was.
C14_PersistsWhenAllowed ==
  h.resolve = "full" =>
    IF args.no_config_cache
    THEN cache = h.cache0 /\ h.cacheWrites = 0
    ELSE /\ h.cache0 = "absent"
         /\ cache = "resolved"
         /\ h.cacheWrites = 1
         /\ bootstrap_result(FALSE) = "cached"

C14_Witness ==
  /\ op = "up" /\ pc = "goc_query"
  /\ h.resolve = "full" /\ ~args.no_config_cache /\ h.cache0 = "absent"

\* C15: when a command ends, the config dict is as the resolver returned it.
C15_ConfigReadOnly ==
  Ended => config = config_file

C17_NeverPatched ==
  /\ []((op = "up" /\ updater.state = "started")
         => node_tags(updater.node).launch = launch_hash)
  /\ [][\A n \in NodeIds :
          (nodes[n].st \in {"pending", "running", "stopping"}
             /\ nodes'[n].st \in {"pending", "running", "stopping"})
            => nodes'[n].tags = nodes[n].tags]_vars

\* C20: the command lists handed to the updater, and run by it, are by flag:
\* restart_only: the start commands alone; no_restart: the initialization and
\* setup commands; neither: initialization, setup and start commands.
C20_CommandsByFlag ==
  (op = "up" /\ updater.state # "none") =>
    LET handed == updater.initialization_commands \o updater.setup_commands
                    \o updater.ray_start_commands
        wanted == IF args.restart_only THEN head_start_ray_commands
                  ELSE IF args.no_restart
                       THEN initialization_commands \o head_setup_commands
                       ELSE initialization_commands \o head_setup_commands
                              \o head_start_ray_commands
    IN /\ handed = wanted
       /\ h.ran # <<>> => h.ran = wanted

\* The commands of a command line as the remote shell takes it apart: a new
\* command starts after each "; ", and text pieces with nothing between them
\* are one command.
RECURSIVE split(_)
split(line) ==
  IF line = <<>> THEN << <<>> >>
  ELSE LET rest == split(Tail(line))
       IN IF Head(line) = SEP
          THEN << <<>> >> \o rest
          ELSE << <<Head(line)>> \o rest[1] >> \o Tail(rest)

\* C18: exec_cluster with a command and stop: the command line handed to the
\* head is, as separate commands in this order, the user's command unchanged,
\* 'ray stop', the workers-only teardown, and then 'sudo shutdown -h now',
\* unless the runner is a docker runner and run_env is "docker": then no
\* shutdown command is appended and the runner is told to shut down after
\* its next command.
C18_StopSequence ==
  (op = "exec" /\ args.cmd # <<>> /\ args.stop /\ h.cmd # <<>>)
    => split(h.cmd) =
         <<args.cmd, <<ray_stop>>, <<ray_teardown>>>>
           \o (IF h.shutdownAfter THEN <<>> ELSE << <<sudo_shutdown>> >>)

\* C11: every provider handle an operation opens (its own and those of the
\* lookups it calls) is released by cleanup() exactly once, whichever way
\* the operation ends: never more cleanups than handles, and when the
\* operation has ended, by return, exception or process exit, as many
\* cleanups as handles opened.
C11_HandlesReleased ==
  /\ h.cleanups <= h.opened
  /\ Ended => h.cleanups = h.opened

\* rsync to all nodes fails on the head lookup with three handles opened.
C11_Witness ==
  /\ Ended /\ op = "rsync" /\ h.outcome = "error"
  /\ h.opened = 3 /\ h.cleanups = 3

\* The nodes rsync is to work on: the head, and with all_nodes every worker
\* the provider reports.
RsSelected ==
  {head_node} \cup (IF args.all_nodes
                    THEN non_terminated_nodes([type |-> NODE_TYPE_WORKER])
                    ELSE {})

\* Transfers rsync is to make on each node.
RsPerNode ==
  IF args.source /\ args.target THEN 1 ELSE Cardinality(DOMAIN config_file.file_mounts)

\* C19: rsync builds one updater per selected node (the head, and every
\* reported worker with all_nodes), works on the nodes one after another
\* (the transfers made so far are those of the nodes that have an updater,
\* node by node in the order of the updaters), makes one transfer per node
\* for an explicit source and target and otherwise one per declared file
\* mount, each mount once, and uses the download primitive iff down is set.
C19_RsyncPerNode ==
  (op = "rsync" /\ pc \in {"rs_loop", "rs_finally", "end"} /\ head_node # None)
    => LET built == h.updaters
           nodeList == built \o h.todo
       IN /\ \A i, j \in DOMAIN nodeList : nodeList[i] = nodeList[j] => i = j
          /\ {nodeList[i] : i \in DOMAIN nodeList} = RsSelected
          /\ h.outcome = "returned" => h.todo = <<>>
          /\ Len(h.transfers) = RsPerNode * Len(built)
          /\ \A i \in DOMAIN h.transfers :
               /\ h.transfers[i].node = built[((i - 1) \div RsPerNode) + 1]
               /\ h.transfers[i].primitive = "rsync_down" <=> args.down
               /\ h.transfers[i].primitive = "rsync_up" <=> ~args.down
               /\ IF args.source /\ args.target
                  THEN h.transfers[i].source = "source"
                  ELSE /\ h.transfers[i].source \in DOMAIN config_file.file_mounts
                       /\ \A j \in DOMAIN h.transfers :
                            (h.transfers[j].node = h.transfers[i].node
                               /\ h.transfers[j].source = h.transfers[i].source)
                              => i = j

\* A download of the file mounts from at least two workers and the head.
C19_Witness ==
  /\ Ended /\ op = "rsync" /\ h.outcome = "returned"
  /\ args.all_nodes /\ args.down /\ ~args.source
  /\ Len(h.updaters) >= 3
  /\ Len(h.transfers) = MaxMounts * Len(h.updaters)

\* A head the provider runs and has not been asked to terminate.
CurrentHead(n) ==
  /\ n \in NodeIds
  /\ nodes[n].tags.type = NODE_TYPE_HEAD
  /\ nodes[n].st = "running"

\* get_or_create_head_node has gone through all its steps.
ReconcileCompleted ==
  /\ \E i \in DOMAIN h.trace : h.trace[i] = "updater.done"
  /\ \E i \in DOMAIN h.trace : h.trace[i] = "ip"
  /\ h.ran = initialization_commands \o head_setup_commands \o head_start_ray_commands

\* C21: exec_cluster runs its command on the current head.  When its lookup
\* finds a head, the command runs on that head, which is the cluster's
\* current head, and nothing is created; when it finds none and start is
\* false, exec fails without running a command or creating a node; when it
\* finds none and start is true, the command runs only after reconcile
\* created one head and went through all its steps, and runs on that head.
C21_RunsOnCurrentHead ==
  (op = "exec" /\ h.lookups # <<>>)
    => LET first == h.lookups[1] IN
       /\ \A i \in DOMAIN h.runs :
            h.runs[i].node = head_node /\ CurrentHead(h.runs[i].node)
       /\ first # {}
            => /\ h.creates = <<>> /\ h.terminates = <<>> /\ h.updaterStarts = 0
               /\ \A i \in DOMAIN h.runs : h.runs[i].node \in first
       /\ (first = {} /\ ~args.start)
            => /\ h.outcome = "error"
               /\ h.runs = <<>> /\ h.remoteCmds = 0 /\ h.creates = <<>>
       /\ (first = {} /\ args.start /\ h.runs # <<>>)
            => /\ ReconcileCompleted
               /\ Len(h.creates) = 1
               /\ h.runs[1].node = h.creates[1].id

\* C22: once reconcile has written the remote config: it has no
\* ssh_proxy_command; for a provider type other than kubernetes its
\* ssh_private_key is ~/ray_bootstrap_key.pem and the file mounts handed to
\* the updater deliver the local key to that path; for kubernetes its key
\* field is that of the local config and there is no key mount; the local
\* auth descriptor is as in the config file; and the remote config's file
\* mounts map each declared remote path, and nothing else, to itself.
C22_KeyInjection ==
  h.remoteWritten
    => /\ "ssh_proxy_command" \notin DOMAIN h.remote.auth
       /\ IF config_file.provider_type # "kubernetes"
          THEN /\ h.remote.auth["ssh_private_key"] = "~/ray_bootstrap_key.pem"
               /\ "~/ray_bootstrap_key.pem" \in DOMAIN config.file_mounts
               /\ config.file_mounts["~/ray_bootstrap_key.pem"]
                    = config_file.auth["ssh_private_key"]
          ELSE /\ h.remote.auth["ssh_private_key"] = config_file.auth["ssh_private_key"]
               /\ "~/ray_bootstrap_key.pem" \notin DOMAIN config.file_mounts
       /\ config.auth = config_file.auth
       /\ DOMAIN h.remote.file_mounts = DOMAIN config_file.file_mounts
       /\ \A p \in DOMAIN h.remote.file_mounts : h.remote.file_mounts[p] = p

\* A kubernetes config with a proxy option and all its file mounts has had
\* its remote config written and its updater started.
C22_Witness ==
  /\ h.remoteWritten
  /\ updater.state # "none"
  /\ config_file.provider_type = "kubernetes"
  /\ "ssh_proxy_command" \in DOMAIN config_file.auth
  /\ Cardinality(DOMAIN config_file.file_mounts) = MaxMounts

\* C23: once reconcile has started its updater, the updater's node is the
\* one node the last readiness poll returned, its launch tag is the launch
\* hash of this invocation, and it is none of the nodes this invocation
\* asked the provider to terminate.
C23_UpdaterTarget ==
  (op = "up" /\ h.updaterStarts > 0)
    => /\ h.lastPoll = {updater.node}
       /\ node_tags(updater.node).type = NODE_TYPE_HEAD
       /\ node_tags(updater.node).launch = launch_hash
       /\ \A i \in DOMAIN h.terminates : h.terminates[i] # updater.node

\* C24: the cache file is written only by a resolve that validated the
\* config and had it bootstrapped by a known provider: a resolve that fails
\* (invalid config, unknown provider type, bootstrap error, or a cache file
\* that does not parse) leaves the cache file as it found it; a resolve that
\* wrote the file is a full one, of a valid config of a known provider
\* type, with validation and bootstrap done; and the file never changes in
\* any other way.
C24_WriteAfterSuccess ==
  /\ [](/\ h.resolve = "failed" => (cache = h.cache0 /\ h.cacheWrites = 0)
        /\ h.cacheWrites > 0
             => /\ h.resolve = "full" /\ h.validations > 0 /\ h.bootstraps > 0
                /\ config_file.schema_valid
                /\ config_file.provider_type \in NODE_PROVIDERS
                /\ cache = "resolved")
  /\ [][cache' # cache
          => /\ cache' = "resolved"
             /\ h'.resolve = "full"
             /\ h'.cacheWrites = h.cacheWrites + 1
             /\ config_file.schema_valid
             /\ config_file.provider_type \in NODE_PROVIDERS]_vars

\* The provider's bootstrap_config raised on a cache miss with caching
\* allowed, and the cache file is still missing.
C24_Witness ==
  /\ UpEnded /\ h.resolve = "failed" /\ ~args.no_config_cache
  /\ h.validations = 1 /\ h.bootstraps = 1
  /\ h.cache0 = "absent" /\ cache = "absent"

====
